---- MODULE Spec2Model ----
(***************************************************************************)
(* ActorCriticGnnPolicy (NerveNet/policies/a2c_policies.py).               *)
(*                                                                         *)
(* The policy object is modelled with its fields (action_dist,             *)
(* sde_features_extractor, the parameter list, the parameter values), its  *)
(* construction (ActorCriticPolicy.__init__ -> _build ->                   *)
(* _build_mlp_extractor) and its operations: forward, evaluate_actions,    *)
(* _get_action_dist_from_latent and the device property.                   *)
(*                                                                         *)
(* Tensors are short sequences of integers.  Floating point formulas of    *)
(* the torch distributions (log densities, exp, sigmoid) are replaced by   *)
(* integer expressions with the same arguments and the same dependence     *)
(* structure; every such place is marked "integer form".                   *)
(***************************************************************************)
EXTENDS Integers, Sequences, FiniteSets, TLC

VARIABLES
    cfg,                    \* constructor arguments (fixed per behaviour)
    cuda_available,         \* torch.cuda.is_available() of the host
    phase,                  \* "new" | "base" | "ready" | "failed"
    error,                  \* exception that ended construction, or None
    action_dist,            \* self.action_dist (one object, shared by all calls)
    sde_features_extractor, \* self.sde_features_extractor
    params,                 \* self.parameters(): sequence of [owner, device]
    theta,                  \* value of the learnable parameters (optimizer steps so far)
    last,                   \* the last completed call and what it returned
    ref,                    \* a remembered earlier forward call (history)
    wk                      \* per worker: position and locals of a call in progress

vars == <<cfg, cuda_available, phase, error, action_dist, sde_features_extractor,
          params, theta, last, ref, wk>>

-----------------------------------------------------------------------------
(* Bounds *)
MaxObs == 1
MaxTheta == 1
MaxDraw == 1
ActionDim == 2
NumWorkers == 2

(* Program constants *)
log_std_init == 0

None == "None"
Workers == 1..NumWorkers
Draws == 0..MaxDraw
\* a batch of one observation: two nodes, one feature per node
Observations == { <<<<a>>, <<MaxObs - a>>>> : a \in 0..MaxObs }
ActionSpaces == {"Box", "Discrete", "MultiDiscrete", "MultiBinary", "Dict"}
Devices == {"cpu", "cuda"}

-----------------------------------------------------------------------------
(* Tensor helpers *)
RECURSIVE SumSeq(_)
SumSeq(s) == IF s = <<>> THEN 0 ELSE Head(s) + SumSeq(Tail(s))

RECURSIVE MaxSeq(_)
MaxSeq(s) == IF Len(s) = 1 THEN s[1]
             ELSE LET m == MaxSeq(Tail(s)) IN IF s[1] >= m THEN s[1] ELSE m

Min2(a, b) == IF a <= b THEN a ELSE b

SumSq(s) == SumSeq([i \in 1..Len(s) |-> s[i] * s[i]])

\* torch.argmax: index (0-based) of the first maximal entry
ArgMax(s) == (CHOOSE i \in 1..Len(s) :
                 /\ s[i] = MaxSeq(s)
                 /\ \A j \in 1..(i - 1) : s[j] < s[i]) - 1

\* exp() on the integer grid (integer form: base 2)
Exp(x) == 2 ^ x

-----------------------------------------------------------------------------
(* Optional tensors (Optional[torch.Tensor]) *)
NoTensor == [none |-> TRUE, t |-> <<>>]
Some(v) == [none |-> FALSE, t |-> v]

(* torch distribution held by an SB3 Distribution object *)
NoDist == [family |-> "None", loc |-> <<>>, var |-> <<>>]
Normal(mean, variance) == [family |-> "Normal", loc |-> mean, var |-> variance]
Logits(fam, logits) == [family |-> fam, loc |-> logits, var |-> <<>>]

-----------------------------------------------------------------------------
(* Networks *)

\* FlattenExtractor on the preprocessed observation: rows concatenated
RECURSIVE extract_features(_)
extract_features(obs) ==
    IF obs = <<>> THEN <<>> ELSE Head(obs) \o extract_features(Tail(obs))

\* width of the actor latent the extractor is configured to emit
latent_dim_pi(space) == IF space = "MultiDiscrete" THEN 2 * ActionDim ELSE ActionDim

\* NerveNetGNN.forward: (latent_pi, latent_vf), deterministic in (parameters, features)
mlp_extractor(th, features, space) ==
    [pi |-> [i \in 1..latent_dim_pi(space) |->
                 i * features[1] - features[2] + th * (2 * i - 3)],
     vf |-> features[1] + 2 * features[2] + 3 * th + 1]

\* the separate gSDE feature network, applied to the features
sde_net(th, features) == [j \in 1..Len(features) |-> features[j] + th + 1]

\* self.log_std, initialised to log_std_init and moved by the optimizer
log_std(th) == log_std_init + th

_get_latent_mut_sde_on_pi(th, sde_fe, obs, space) ==
    LET features == extract_features(obs)
        lat == mlp_extractor(th, features, space)
    IN  [pi |-> lat.pi, vf |-> lat.vf,
         sde |-> IF sde_fe = None THEN lat.pi ELSE sde_net(th, lat.pi),
         features |-> features]

\* ActorCriticGnnPolicy._get_latent
_get_latent(th, sde_fe, obs, space) ==
    LET features == extract_features(obs)
        lat == mlp_extractor(th, features, space)
        latent_pi == lat.pi
        latent_vf == lat.vf
        latent_sde == IF sde_fe # None THEN sde_net(th, features) ELSE latent_pi
    IN  [pi |-> latent_pi, vf |-> latent_vf, sde |-> latent_sde, features |-> features]

-----------------------------------------------------------------------------
(* Action distributions (stable_baselines3.common.distributions) *)

Kinds == {"DiagGaussian", "Categorical", "MultiCategorical", "Bernoulli",
          "StateDependentNoise"}

\* a Distribution object as created: no torch distribution built yet
NewDist(kind, learn_features) ==
    [kind |-> kind, distribution |-> NoDist, latent_sde |-> NoTensor,
     learn_features |-> learn_features, exploration_mat |-> 0]

make_proba_distribution_mut_no_raise(space, use_sde) ==
    CASE space = "Box" -> IF use_sde THEN "StateDependentNoise" ELSE "DiagGaussian"
      [] space = "Discrete" -> "Categorical"
      [] space = "MultiDiscrete" -> "MultiCategorical"
      [] space = "MultiBinary" -> "Bernoulli"
      [] OTHER -> "Unknown"

\* make_proba_distribution(action_space, use_sde): the variant for the action
\* space, or NotImplementedError for a space that is none of the four gym spaces
make_proba_distribution(space, use_sde) ==
    CASE space = "Box" -> IF use_sde THEN "StateDependentNoise" ELSE "DiagGaussian"
      [] space = "Discrete" -> "Categorical"
      [] space = "MultiDiscrete" -> "MultiCategorical"
      [] space = "MultiBinary" -> "Bernoulli"
      [] OTHER -> "NotImplementedError"

\* block b (1-based) of the flattened multi-categorical logits, blocks of width 2
Block(logits, b) == <<logits[2 * b - 1], logits[2 * b]>>
NumBlocks(logits) == Len(logits) \div 2

\* proba_distribution of each variant: stores the torch distribution in the
\* object itself (self.distribution = ...) and returns self
proba_distribution(ad, mean_actions, ls, latent_sde) ==
    CASE ad.kind = "DiagGaussian" ->
           [err |-> None,
            ad |-> [ad EXCEPT !.distribution =
                       Normal(mean_actions,
                              [j \in 1..Len(mean_actions) |-> Exp(ls) * Exp(ls)])]]
      [] ad.kind = "Categorical" ->
           [err |-> None,
            ad |-> [ad EXCEPT !.distribution = Logits("Categorical", mean_actions)]]
      [] ad.kind = "MultiCategorical" ->
           [err |-> None,
            ad |-> [ad EXCEPT !.distribution = Logits("MultiCategorical", mean_actions)]]
      [] ad.kind = "Bernoulli" ->
           [err |-> None,
            ad |-> [ad EXCEPT !.distribution = Logits("Bernoulli", mean_actions)]]
      [] ad.kind = "StateDependentNoise" ->
           \* self._latent_sde = latent_sde if self.learn_features else latent_sde.detach()
           \* variance = th.mm(self._latent_sde ** 2, self.get_std(log_std) ** 2)
           IF latent_sde.none
           THEN IF ad.learn_features
                THEN [err |-> "TypeError", ad |-> [ad EXCEPT !.latent_sde = NoTensor]]
                ELSE [err |-> "AttributeError", ad |-> ad]
           ELSE [err |-> None,
                 ad |-> [ad EXCEPT
                     !.latent_sde = latent_sde,
                     !.distribution =
                         Normal(mean_actions,
                                [j \in 1..Len(mean_actions) |->
                                     SumSq(latent_sde.t) * Exp(ls) * Exp(ls) + 1])]]

_get_action_dist_from_latent_mut_sde_default(ad, mean_actions, ls, latent_sde) ==
    IF ad.kind \in Kinds
    THEN proba_distribution(ad, mean_actions, ls,
                            IF latent_sde.none THEN Some(mean_actions) ELSE latent_sde)
    ELSE [err |-> "ValueError", ad |-> ad]

\* ActorCriticGnnPolicy._get_action_dist_from_latent: a branch per variant,
\* latent_sde handed on only in the gSDE branch, ValueError when none matches
_get_action_dist_from_latent(ad, mean_actions, ls, latent_sde) ==
    CASE ad.kind = "DiagGaussian" -> proba_distribution(ad, mean_actions, ls, NoTensor)
      [] ad.kind = "Categorical" -> proba_distribution(ad, mean_actions, ls, NoTensor)
      [] ad.kind = "MultiCategorical" -> proba_distribution(ad, mean_actions, ls, NoTensor)
      [] ad.kind = "Bernoulli" -> proba_distribution(ad, mean_actions, ls, NoTensor)
      [] ad.kind = "StateDependentNoise" ->
           proba_distribution(ad, mean_actions, ls, latent_sde)
      [] OTHER -> [err |-> "ValueError", ad |-> ad]

-----------------------------------------------------------------------------
(* Sampling, log-probability and entropy of the built distribution *)

\* Distribution.mode()
mode(ad) ==
    LET d == ad.distribution IN
    CASE d.family = "Normal" -> d.loc
      [] d.family = "Categorical" -> <<ArgMax(d.loc)>>
      [] d.family = "MultiCategorical" ->
           [b \in 1..NumBlocks(d.loc) |-> ArgMax(Block(d.loc, b))]
      [] d.family = "Bernoulli" ->
           \* torch.round(probs): 1 exactly when sigmoid(logit) > 0.5
           [j \in 1..Len(d.loc) |-> IF d.loc[j] > 0 THEN 1 ELSE 0]

\* Distribution.sample(); r is the random draw of the call
sample(ad, r) ==
    LET d == ad.distribution IN
    CASE d.family = "Normal" /\ ad.kind = "DiagGaussian" ->
           \* rsample: mean + std * eps (integer form: eps = r - 1)
           [j \in 1..Len(d.loc) |-> d.loc[j] + d.var[j] * (r - 1)]
      [] d.family = "Normal" /\ ad.kind = "StateDependentNoise" ->
           \* mean + latent_sde @ exploration_mat (the matrix is object state)
           [j \in 1..Len(d.loc) |-> d.loc[j] + SumSeq(ad.latent_sde.t) * ad.exploration_mat]
      [] d.family = "Categorical" -> <<r % Len(d.loc)>>
      [] d.family = "MultiCategorical" -> [b \in 1..NumBlocks(d.loc) |-> (r + b) % 2]
      [] d.family = "Bernoulli" -> [j \in 1..Len(d.loc) |-> (r + j) % 2]

get_actions_mut_ignore_flag(ad, deterministic, r) == sample(ad, r)

\* Distribution.get_actions(deterministic)
get_actions(ad, deterministic, r) == IF deterministic THEN mode(ad) ELSE sample(ad, r)

\* log-softmax of logits at index a (integer form: logit minus the largest logit)
LogSoftmaxAt(logits, a) == logits[a + 1] - MaxSeq(logits)

\* Distribution.log_prob(actions)
dist_log_prob(ad, actions) ==
    LET d == ad.distribution IN
    CASE d.family = "Normal" ->
           \* sum over dimensions of the normal log density
           \* (integer form: -(a - mean)^2 - variance)
           0 - SumSeq([j \in 1..Len(d.loc) |->
                          (actions[j] - d.loc[j]) * (actions[j] - d.loc[j]) + d.var[j]])
      [] d.family = "Categorical" -> LogSoftmaxAt(d.loc, actions[1])
      [] d.family = "MultiCategorical" ->
           SumSeq([b \in 1..NumBlocks(d.loc) |-> LogSoftmaxAt(Block(d.loc, b), actions[b])])
      [] d.family = "Bernoulli" ->
           \* log sigmoid (integer form: min(0, x))
           SumSeq([j \in 1..Len(d.loc) |->
                      IF actions[j] = 1 THEN Min2(0, d.loc[j]) ELSE Min2(0, 0 - d.loc[j])])

\* entropy of a categorical (integer form: minus the spread of the logits)
CatEntropy(logits) == 0 - SumSeq([i \in 1..Len(logits) |-> MaxSeq(logits) - logits[i]])

\* Distribution.entropy()
dist_entropy(ad) ==
    LET d == ad.distribution IN
    CASE d.family = "Normal" -> SumSeq(d.var)
      [] d.family = "Categorical" -> CatEntropy(d.loc)
      [] d.family = "MultiCategorical" ->
           SumSeq([b \in 1..NumBlocks(d.loc) |-> CatEntropy(Block(d.loc, b))])
      [] d.family = "Bernoulli" ->
           0 - SumSeq([j \in 1..Len(d.loc) |->
                          IF d.loc[j] >= 0 THEN d.loc[j] ELSE 0 - d.loc[j]])

\* actions a trainer may hand to evaluate_actions for a variant
ActionInputs(kind) ==
    CASE kind \in {"DiagGaussian", "StateDependentNoise"} ->
           { [j \in 1..ActionDim |-> v] : v \in {-1, 0, 1} }
      [] kind = "Categorical" -> { <<i>> : i \in 0..(ActionDim - 1) }
      [] kind \in {"MultiCategorical", "Bernoulli"} -> [1..ActionDim -> {0, 1}]
      [] OTHER -> {}

-----------------------------------------------------------------------------
(* Device *)

\* stable_baselines3.common.utils.get_device("auto")
get_device_auto(cuda) == IF cuda THEN "cuda" ELSE "cpu"

device_mut_cpu_fallback(ps, cuda) == IF Len(ps) > 0 THEN ps[1].device ELSE "cpu"

\* ActorCriticGnnPolicy.device
device(ps, cuda) == IF Len(ps) > 0 THEN ps[1].device ELSE get_device_auto(cuda)

-----------------------------------------------------------------------------
(* Call records *)

NoCall ==
    [op |-> "none", obs |-> <<>>, det |-> FALSE, draw |-> 0, theta |-> 0,
     actions |-> <<>>, values |-> 0, log_prob |-> 0, entropy |-> 0,
     err |-> None, sde_given |-> FALSE, device |-> None]

NoRef ==
    [set |-> FALSE, obs |-> <<>>, det |-> FALSE, theta |-> 0,
     actions |-> <<>>, values |-> 0, log_prob |-> 0]

Idle ==
    [pc |-> "idle", op |-> "none", obs |-> <<>>, det |-> FALSE, draw |-> 0,
     actions |-> <<>>, values |-> 0, log_prob |-> 0, entropy |-> 0, err |-> None]

-----------------------------------------------------------------------------
(* The operations as functions of the policy's fields and the inputs *)

forward_mut_value_net(ad, th, sde_fe, space, obs, deterministic, r) ==
    LET lat == _get_latent(th, sde_fe, obs, space)
        built == _get_action_dist_from_latent(ad, lat.pi, log_std(th), Some(lat.sde))
        actions == get_actions(built.ad, deterministic, r)
    IN  IF built.err # None
        THEN [err |-> built.err, ad |-> built.ad, actions |-> <<>>, values |-> 0,
              log_prob |-> 0]
        ELSE [err |-> None, ad |-> built.ad, actions |-> actions,
              values |-> 2 * lat.vf + 1, log_prob |-> dist_log_prob(built.ad, actions)]

\* ActorCriticGnnPolicy.forward
forward(ad, th, sde_fe, space, obs, deterministic, r) ==
    LET lat == _get_latent(th, sde_fe, obs, space)
        mean_actions == lat.pi
        values == lat.vf
        built == _get_action_dist_from_latent(ad, mean_actions, log_std(th), Some(lat.sde))
        distribution == built.ad
        actions == get_actions(distribution, deterministic, r)
        log_prob == dist_log_prob(distribution, actions)
    IN  IF built.err # None
        THEN [err |-> built.err, ad |-> built.ad, actions |-> <<>>, values |-> 0,
              log_prob |-> 0]
        ELSE [err |-> None, ad |-> distribution, actions |-> actions,
              values |-> values, log_prob |-> log_prob]

evaluate_actions_mut_value_net(ad, th, sde_fe, space, obs, actions) ==
    LET lat == _get_latent(th, sde_fe, obs, space)
        built == _get_action_dist_from_latent(ad, lat.pi, log_std(th), Some(lat.sde))
    IN  IF built.err # None
        THEN [err |-> built.err, ad |-> built.ad, values |-> 0, log_prob |-> 0,
              entropy |-> 0]
        ELSE [err |-> None, ad |-> built.ad, values |-> 2 * lat.vf + 1,
              log_prob |-> dist_log_prob(built.ad, actions),
              entropy |-> dist_entropy(built.ad)]

\* ActorCriticGnnPolicy.evaluate_actions
evaluate_actions(ad, th, sde_fe, space, obs, actions) ==
    LET lat == _get_latent(th, sde_fe, obs, space)
        built == _get_action_dist_from_latent(ad, lat.pi, log_std(th), Some(lat.sde))
        distribution == built.ad
        log_prob == dist_log_prob(distribution, actions)
        values == lat.vf
    IN  IF built.err # None
        THEN [err |-> built.err, ad |-> built.ad, values |-> 0, log_prob |-> 0,
              entropy |-> 0]
        ELSE [err |-> None, ad |-> distribution, values |-> values,
              log_prob |-> log_prob, entropy |-> dist_entropy(distribution)]

_build_mlp_extractor_mut_none_as_empty(kwargs) == None

\* ActorCriticGnnPolicy._build_mlp_extractor: **self.mlp_extractor_kwargs raises
\* TypeError when the keyword arguments are None (not a mapping)
_build_mlp_extractor(kwargs) == IF kwargs = None THEN "TypeError" ELSE None

\* parameters() of the built policy, in registration order: own Parameters
\* (log_std) first, then the sub-modules in the order they were assigned
BuiltParams(kind, sde_net_arch) ==
    (IF kind \in {"DiagGaussian", "StateDependentNoise"}
     THEN <<[owner |-> "log_std", device |-> "cpu"]>> ELSE <<>>)
    \o <<[owner |-> "mlp_extractor", device |-> "cpu"]>>
    \o (IF sde_net_arch # None
        THEN <<[owner |-> "sde_features_extractor", device |-> "cpu"]>> ELSE <<>>)
    \o <<[owner |-> "action_net", device |-> "cpu"],
         [owner |-> "value_net", device |-> "cpu"]>>

-----------------------------------------------------------------------------
(* State machine *)

\* constructor arguments; gSDE (use_sde) is an option of continuous actions
Configs ==
    { c \in [action_space : ActionSpaces, use_sde : BOOLEAN,
             sde_net_arch : {None, "arch"}, mlp_extractor_kwargs : {None, "kwargs"}] :
        c.use_sde => c.action_space = "Box" }

Init ==
    /\ cfg \in Configs
    /\ cuda_available \in BOOLEAN
    /\ phase = "new"
    /\ error = None
    /\ action_dist = NewDist("None", FALSE)
    /\ sde_features_extractor = None
    /\ params = <<>>
    /\ theta = 0
    /\ last = NoCall
    /\ ref = NoRef
    /\ wk = [w \in Workers |-> Idle]

AllIdle == \A w \in Workers : wk[w].pc = "idle"

\* __init__ up to the call of _build: the fields are stored, the features
\* extractor (FlattenExtractor, no parameters) is created and
\* self.action_dist = make_proba_distribution(action_space, use_sde)
InitBase ==
    /\ phase = "new"
    /\ LET kind == make_proba_distribution(cfg.action_space, cfg.use_sde) IN
       IF kind = "NotImplementedError"
       THEN /\ phase' = "failed"
            /\ error' = "NotImplementedError"
            /\ UNCHANGED action_dist
       ELSE /\ phase' = "base"
            /\ action_dist' = NewDist(kind, cfg.sde_net_arch # None)
            /\ UNCHANGED error
    /\ UNCHANGED <<cfg, cuda_available, sde_features_extractor, params, theta,
                   last, ref, wk>>

\* _build: _build_mlp_extractor, then the gSDE feature network, the heads and,
\* for gSDE, the first exploration matrix
Build ==
    /\ phase = "base"
    /\ LET e == _build_mlp_extractor(cfg.mlp_extractor_kwargs) IN
       IF e # None
       THEN /\ phase' = "failed"
            /\ error' = e
            /\ UNCHANGED <<action_dist, sde_features_extractor, params>>
       ELSE /\ phase' = "ready"
            /\ sde_features_extractor' =
                   IF cfg.sde_net_arch # None THEN "sde_net" ELSE None
            /\ params' = BuiltParams(action_dist.kind, cfg.sde_net_arch)
            /\ \E m \in {-1, 1} :
                   action_dist' =
                       IF action_dist.kind = "StateDependentNoise"
                       THEN [action_dist EXCEPT !.exploration_mat = m]
                       ELSE action_dist
            /\ UNCHANGED error
    /\ UNCHANGED <<cfg, cuda_available, theta, last, ref, wk>>

\* nn.Module.to(device) on the policy or on its mlp_extractor
To(target, d) ==
    /\ phase = "ready"
    /\ d = "cuda" => cuda_available
    /\ params' = [i \in 1..Len(params) |->
                     IF target = "policy" \/ params[i].owner = target
                     THEN [params[i] EXCEPT !.device = d]
                     ELSE params[i]]
    /\ params' # params
    /\ UNCHANGED <<cfg, cuda_available, phase, error, action_dist,
                   sde_features_extractor, theta, last, ref, wk>>

\* reading policy.device
DeviceQuery ==
    /\ phase \in {"base", "ready"}
    /\ last' = [NoCall EXCEPT !.op = "device", !.device = device(params, cuda_available)]
    /\ UNCHANGED <<cfg, cuda_available, phase, error, action_dist,
                   sde_features_extractor, params, theta, ref, wk>>

\* the trainer's optimizer step, serialized against the calls
OptimizerStep ==
    /\ phase = "ready"
    /\ AllIdle
    /\ theta < MaxTheta
    /\ theta' = theta + 1
    /\ UNCHANGED <<cfg, cuda_available, phase, error, action_dist,
                   sde_features_extractor, params, last, ref, wk>>

\* reset_noise: a new exploration matrix for gSDE
ResetNoise ==
    /\ phase = "ready"
    /\ AllIdle
    /\ action_dist.kind = "StateDependentNoise"
    /\ \E m \in {-1, 1} :
           /\ m # action_dist.exploration_mat
           /\ action_dist' = [action_dist EXCEPT !.exploration_mat = m]
    /\ UNCHANGED <<cfg, cuda_available, phase, error, sde_features_extractor,
                   params, theta, last, ref, wk>>

\* one whole forward(obs, deterministic) call
Forward(obs, deterministic, r) ==
    /\ phase = "ready"
    /\ AllIdle
    /\ deterministic => r = 0
    /\ LET res == forward(action_dist, theta, sde_features_extractor,
                          cfg.action_space, obs, deterministic, r)
           rec == [NoCall EXCEPT !.op = "forward", !.obs = obs, !.det = deterministic,
                                 !.draw = r, !.theta = theta, !.actions = res.actions,
                                 !.values = res.values, !.log_prob = res.log_prob,
                                 !.err = res.err, !.sde_given = TRUE]
       IN  /\ action_dist' = res.ad
           /\ last' = rec
           /\ \/ ref' = ref
              \/ /\ res.err = None
                 /\ ref' = [set |-> TRUE, obs |-> obs, det |-> deterministic,
                            theta |-> theta, actions |-> res.actions,
                            values |-> res.values, log_prob |-> res.log_prob]
    /\ UNCHANGED <<cfg, cuda_available, phase, error, sde_features_extractor,
                   params, theta, wk>>

\* one whole evaluate_actions(obs, actions) call
EvaluateActions(obs, actions) ==
    /\ phase = "ready"
    /\ AllIdle
    /\ LET res == evaluate_actions(action_dist, theta, sde_features_extractor,
                                   cfg.action_space, obs, actions)
       IN  /\ action_dist' = res.ad
           /\ last' = [NoCall EXCEPT !.op = "evaluate", !.obs = obs, !.theta = theta,
                                     !.actions = actions, !.values = res.values,
                                     !.log_prob = res.log_prob,
                                     !.entropy = res.entropy, !.err = res.err,
                                     !.sde_given = TRUE]
    /\ UNCHANGED <<cfg, cuda_available, phase, error, sde_features_extractor,
                   params, theta, ref, wk>>

\* a direct call _get_action_dist_from_latent(mean_actions[, latent_sde]);
\* latent_sde defaults to None
GetActionDist(obs, sde_given) ==
    /\ phase = "ready"
    /\ AllIdle
    /\ LET lat == _get_latent(theta, sde_features_extractor, obs, cfg.action_space)
           res == _get_action_dist_from_latent(
                      action_dist, lat.pi, log_std(theta),
                      IF sde_given THEN Some(lat.sde) ELSE NoTensor)
       IN  /\ action_dist' = res.ad
           /\ last' = [NoCall EXCEPT !.op = "dist", !.obs = obs, !.theta = theta,
                                     !.err = res.err, !.sde_given = sde_given]
    /\ UNCHANGED <<cfg, cuda_available, phase, error, sde_features_extractor,
                   params, theta, ref, wk>>

EvalInputs == ActionInputs(action_dist.kind) \cup (IF ref.set THEN {ref.actions} ELSE {})

\* construction, then whole calls one after the other; cuda_available is read by
\* the device property and by To only, so it is fixed here
CallInit == Init /\ ~cuda_available

Next ==
    \/ InitBase
    \/ Build
    \/ OptimizerStep
    \/ ResetNoise
    \/ \E obs \in Observations, det \in BOOLEAN, r \in Draws : Forward(obs, det, r)
    \/ \E obs \in Observations, a \in EvalInputs : EvaluateActions(obs, a)
    \/ \E obs \in Observations, g \in BOOLEAN : GetActionDist(obs, g)

Spec == CallInit /\ [][Next]_vars

\* construction and the device property
DeviceNext ==
    \/ InitBase
    \/ Build
    \/ \E t \in {"policy", "mlp_extractor"}, d \in Devices : To(t, d)
    \/ DeviceQuery

DeviceSpec == Init /\ [][DeviceNext]_vars

-----------------------------------------------------------------------------
(* Calls of several trainer workers on the one policy, statement by statement *)

\* forward lines 169-174 / evaluate_actions lines 190-191: the latents of the
\* call, then the distribution, built in the shared self.action_dist
WBuild(w, op, obs, deterministic, r, actions) ==
    /\ phase = "ready"
    /\ wk[w].pc = "idle"
    /\ op = "forward" => actions = <<>>
    /\ op = "evaluate" => (~deterministic /\ r = 0 /\ actions \in ActionInputs(action_dist.kind))
    /\ deterministic => r = 0
    /\ LET lat == _get_latent(theta, sde_features_extractor, obs, cfg.action_space)
           built == _get_action_dist_from_latent(action_dist, lat.pi, log_std(theta),
                                                 Some(lat.sde))
       IN  /\ action_dist' = built.ad
           /\ wk' = [wk EXCEPT ![w] =
                  [pc |-> IF built.err # None THEN "return"
                          ELSE IF op = "forward" THEN "sample" ELSE "log_prob",
                   op |-> op, obs |-> obs, det |-> deterministic, draw |-> r,
                   actions |-> actions, values |-> lat.vf, log_prob |-> 0,
                   entropy |-> 0, err |-> built.err]]
    /\ UNCHANGED <<cfg, cuda_available, phase, error, sde_features_extractor,
                   params, theta, last, ref>>

\* forward line 175: distribution.get_actions(deterministic=deterministic)
WSample(w) ==
    /\ wk[w].pc = "sample"
    /\ wk' = [wk EXCEPT ![w].actions = get_actions(action_dist, wk[w].det, wk[w].draw),
                        ![w].pc = "log_prob"]
    /\ UNCHANGED <<cfg, cuda_available, phase, error, action_dist,
                   sde_features_extractor, params, theta, last, ref>>

\* forward line 177 / evaluate_actions line 192: distribution.log_prob(actions)
WLogProb(w) ==
    /\ wk[w].pc = "log_prob"
    /\ wk' = [wk EXCEPT ![w].log_prob = dist_log_prob(action_dist, wk[w].actions),
                        ![w].pc = IF wk[w].op = "forward" THEN "return" ELSE "entropy"]
    /\ UNCHANGED <<cfg, cuda_available, phase, error, action_dist,
                   sde_features_extractor, params, theta, last, ref>>

\* evaluate_actions line 194: distribution.entropy()
WEntropy(w) ==
    /\ wk[w].pc = "entropy"
    /\ wk' = [wk EXCEPT ![w].entropy = dist_entropy(action_dist), ![w].pc = "return"]
    /\ UNCHANGED <<cfg, cuda_available, phase, error, action_dist,
                   sde_features_extractor, params, theta, last, ref>>

\* the call returns its tuple
WReturn(w) ==
    /\ wk[w].pc = "return"
    /\ wk' = [wk EXCEPT ![w] = Idle]
    /\ UNCHANGED <<cfg, cuda_available, phase, error, action_dist,
                   sde_features_extractor, params, theta, last, ref>>

ConcNext ==
    \/ InitBase
    \/ Build
    \/ OptimizerStep
    \/ ResetNoise
    \/ \E w \in Workers, op \in {"forward", "evaluate"}, obs \in Observations,
          det \in BOOLEAN, r \in Draws,
          a \in {<<>>} \cup ActionInputs(action_dist.kind) :
           WBuild(w, op, obs, det, r, a)
    \/ \E w \in Workers : WSample(w)
    \/ \E w \in Workers : WLogProb(w)
    \/ \E w \in Workers : WEntropy(w)
    \/ \E w \in Workers : WReturn(w)

ConcSpec == CallInit /\ [][ConcNext]_vars

-----------------------------------------------------------------------------
(* Properties *)

SupportedSpaces == {"Box", "Discrete", "MultiDiscrete", "MultiBinary"}

\* the latents of the last call, recomputed from its observation and parameters
LastFeatures == extract_features(last.obs)
LastPi == mlp_extractor(last.theta, LastFeatures, cfg.action_space).pi
LastVf == mlp_extractor(last.theta, LastFeatures, cfg.action_space).vf
IsCall == last.op \in {"forward", "evaluate"} /\ last.err = None

\* C1: a completed forward call returns as value exactly the critic latent of
\* the extractor, its action is the mode (deterministic) or a sample of the
\* distribution the call built from its own actor latent, and its log_prob is
\* the log-probability of that action under that distribution.
C1_ForwardReturnsLatentValueAndOwnLogProb ==
    (last.op = "forward" /\ last.err = None) =>
        /\ last.values = LastVf
        /\ action_dist.distribution.loc = LastPi
        /\ last.det => last.actions = mode(action_dist)
        /\ ~last.det =>
               \E m \in {-1, 1} :
                   last.actions = sample([action_dist EXCEPT !.exploration_mat = m],
                                         last.draw)
        /\ last.log_prob = dist_log_prob(action_dist, last.actions)

C1_Witness ==
    /\ last.op = "forward"
    /\ last.err = None
    /\ ~last.det
    /\ last.actions # mode(action_dist)
    /\ last.values # 0

\* C2: evaluate_actions on the observation and the action of an earlier forward
\* call, with the parameters unchanged, returns the value and the log_prob that
\* forward returned.
C2_EvaluateReproducesForward ==
    (/\ last.op = "evaluate"
     /\ ref.set
     /\ last.obs = ref.obs
     /\ last.actions = ref.actions
     /\ last.theta = ref.theta) =>
        /\ last.err = None
        /\ last.values = ref.values
        /\ last.log_prob = ref.log_prob

C2_Witness ==
    /\ last.op = "evaluate"
    /\ ref.set
    /\ ~ref.det
    /\ last.obs = ref.obs
    /\ last.actions = ref.actions
    /\ last.theta = ref.theta
    /\ last.log_prob = ref.log_prob
    /\ last.log_prob # 0

\* C3: with an action space that matches none of the known variants the
\* constructor ends in NotImplementedError before the policy is built; no call
\* ever raises the "Invalid action distribution" ValueError, and a policy that
\* exists always holds one of the five variants.
C3_UnsupportedSpaceFailsAtConstruction ==
    /\ cfg.action_space \notin SupportedSpaces =>
           /\ phase \in {"new", "failed"}
           /\ phase = "failed" => error = "NotImplementedError"
    /\ phase \in {"base", "ready"} => action_dist.kind \in Kinds
    /\ last.err # "ValueError"

C3_Witness ==
    /\ cfg.action_space \notin SupportedSpaces
    /\ phase = "failed"
    /\ error = "NotImplementedError"
    /\ last.op = "none"

\* C4: reading the device property yields the device of the first parameter
\* when the policy has parameters, and the automatic choice (cuda when
\* available, else cpu) when it has none.
C4_DeviceOfFirstParameterElseAuto ==
    [][DeviceQuery =>
          last'.device = IF Len(params) > 0 THEN params[1].device
                         ELSE IF cuda_available THEN "cuda" ELSE "cpu"]_vars

C4_Witness ==
    /\ last.op = "device"
    /\ Len(params) = 0
    /\ cuda_available
    /\ last.device = "cuda"

\* what the call of worker w returns when it runs alone on the policy
AloneForward(w) ==
    forward(action_dist, theta, sde_features_extractor, cfg.action_space,
            wk[w].obs, wk[w].det, wk[w].draw)
AloneEvaluate(w) ==
    evaluate_actions(action_dist, theta, sde_features_extractor, cfg.action_space,
                     wk[w].obs, wk[w].actions)

\* C5: a call that runs concurrently with other calls (no parameter update in
\* between) returns what it returns when run alone.
C5_ConcurrentCallsReturnAsAlone ==
    \A w \in Workers :
        (wk[w].pc = "return" /\ wk[w].err = None) =>
            IF wk[w].op = "forward"
            THEN /\ wk[w].actions = AloneForward(w).actions
                 /\ wk[w].values = AloneForward(w).values
                 /\ wk[w].log_prob = AloneForward(w).log_prob
            ELSE /\ wk[w].values = AloneEvaluate(w).values
                 /\ wk[w].log_prob = AloneEvaluate(w).log_prob
                 /\ wk[w].entropy = AloneEvaluate(w).entropy

\* C6: the distribution is never kept across calls: a call leaves every field
\* of the policy unchanged, so the stored action_dist object never holds a
\* distribution (or exploration latent) derived from a call's latents.
C6_NoDistributionKept ==
    last.op \in {"none", "forward", "evaluate"} =>
        /\ action_dist.distribution = NoDist
        /\ action_dist.latent_sde = NoTensor

\* the missing exploration latent shows as an error raised inside a call
MissingLatentRaisedInCall ==
    /\ phase = "ready"
    /\ action_dist.kind = "StateDependentNoise"
    /\ last.op = "dist"
    /\ ~last.sde_given
    /\ last.err # None

C8_DeterministicForwardIsPure ==
    (/\ last.op = "forward"
     /\ last.det
     /\ ref.set
     /\ ref.det
     /\ last.obs = ref.obs
     /\ last.theta = ref.theta) => last.actions = ref.actions

C8_Witness ==
    /\ last.op = "forward"
    /\ last.det
    /\ ref.set
    /\ ref.det
    /\ last.obs = ref.obs
    /\ last.theta = ref.theta
    /\ last.actions = ref.actions
    /\ last.actions # <<>>

\* the exploration latent of the last call as the code is to source it
LastSde == IF sde_features_extractor = None THEN LastPi
           ELSE sde_net(last.theta, LastFeatures)

\* C9: in a forward/evaluate call the exploration latent is the actor latent
\* without a gSDE feature network and that network applied to the features
\* otherwise; only the state-dependent-noise variant is handed it, the other
\* four are built from the actor latent (and log_std) alone.
C9_ExplorationLatentSourcingAndUse ==
    IsCall =>
        IF action_dist.kind = "StateDependentNoise"
        THEN /\ action_dist.latent_sde = Some(LastSde)
             /\ action_dist.distribution =
                    proba_distribution(NewDist(action_dist.kind, FALSE), LastPi,
                                       log_std(last.theta), Some(LastSde)).ad.distribution
        ELSE /\ action_dist.latent_sde = NoTensor
             /\ action_dist.distribution =
                    proba_distribution(NewDist(action_dist.kind, FALSE), LastPi,
                                       log_std(last.theta), NoTensor).ad.distribution

C9_Witness ==
    /\ IsCall
    /\ action_dist.kind = "StateDependentNoise"
    /\ sde_features_extractor # None
    /\ action_dist.latent_sde = Some(LastSde)
    /\ LastSde # LastPi

\* C10: with mlp_extractor_kwargs left at None the constructor fails in
\* _build_mlp_extractor (TypeError), so a policy that is ready, and every call,
\* has explicitly supplied extractor keyword arguments.
C10_NoneKwargsFailConstruction ==
    /\ phase = "ready" => cfg.mlp_extractor_kwargs # None
    /\ last.op # "none" => cfg.mlp_extractor_kwargs # None
    /\ (cfg.mlp_extractor_kwargs = None /\ cfg.action_space \in SupportedSpaces) =>
           /\ phase \in {"new", "base", "failed"}
           /\ phase = "failed" => error = "TypeError"

C10_Witness ==
    /\ cfg.mlp_extractor_kwargs = None
    /\ phase = "failed"
    /\ error = "TypeError"

====
